---- MODULE Spec2Model ----
(***************************************************************************)
(* NewsApp ML training pipeline: src/ml_training/train_model.py.           *)
(*                                                                         *)
(* main() runs once: init_firebase, three fetches, the minimum-data gate,  *)
(* build_interaction_matrix, train_svd_model, build_model_artifacts and    *)
(* upload_model_to_firestore, with one try/except around all of it.        *)
(*                                                                         *)
(* Numbers.  Python computes the scores and the category weights in        *)
(* floating point; here they are exact rationals <<numerator, denominator>>*)
(* in lowest terms, so every equality below is an equality of the real     *)
(* values (the rounding of IEEE doubles is not modelled).  Document ids    *)
(* are naturals, ordered as Firestore and pandas order the id strings.     *)
(* The numeric entries of the SVD factors are not modelled, only the       *)
(* shapes of the factor arrays.                                            *)
(***************************************************************************)
EXTENDS Integers, Sequences, FiniteSets, TLC

VARIABLES
    pc,               \* position in main(), or in a direct call of one function
    doc_store,        \* Firestore document ml_models/recommendation_model_v1
    writes,           \* number of doc_ref.set calls Firestore has applied
    interactions,     \* list returned by fetch_user_interactions
    preferences,      \* list returned by fetch_user_preferences
    bookmarks,        \* list returned by fetch_bookmarks
    requested,        \* the n_components argument of train_svd_model
    scores,           \* the scores dict of build_interaction_matrix
    matrix,           \* the pivoted DataFrame, or None
    user_ids,         \* list(matrix.index), or None
    article_ids,      \* list(matrix.columns), or None
    user_factors,     \* svd.fit_transform(matrix.values)
    article_factors,  \* svd.components_.T
    n_components,     \* the rank train_svd_model returns
    model_doc,        \* the document build_model_artifacts returns
    console,          \* the last status line main() printed
    raised,           \* the stage whose exception reached main's handler
    result            \* main()'s return value

vars == <<pc, doc_store, writes, interactions, preferences, bookmarks, requested,
          scores, matrix, user_ids, article_ids, user_factors, article_factors,
          n_components, model_doc, console, raised, result>>

-----------------------------------------------------------------------------
(* Python values *)

(* None, where the value is otherwise a record (a DataFrame, a document). *)
(* An unset list is <<>>, an unset rank 0, an unset string "".           *)
None == [tag |-> "None"]

Min(a, b) == IF a <= b THEN a ELSE b

Max(a, b) == IF a >= b THEN a ELSE b

Abs(n) == IF n < 0 THEN -n ELSE n

RECURSIVE GCD(_, _)
GCD(a, b) == IF b = 0 THEN a ELSE GCD(b, a % b)

(* Exact rational numbers <<n, d>>, d > 0, in lowest terms. *)
RatNorm(n, d) ==
    LET g == GCD(Abs(n), Abs(d))
        s == IF d < 0 THEN -1 ELSE 1
    IN  <<(s * n) \div g, (s * d) \div g>>

RatOf(n) == <<n, 1>>

RatAdd(a, b) == RatNorm(a[1] * b[2] + b[1] * a[2], a[2] * b[2])

(* The value that stands for Python raising ZeroDivisionError. *)
ZeroDivisionError == <<1, 0>>

(* float("nan"): a missing cell of a DataFrame. *)
NaN == <<0, 0>>

RatDiv(a, b) ==
    IF b[1] = 0 THEN ZeroDivisionError ELSE RatNorm(a[1] * b[2], a[2] * b[1])

RatLeq(a, b) == a[1] * b[2] <= b[1] * a[2]

(* A Python dict: the sequence of its <<key, value>> items in insertion order. *)
DictHas(d, k) == \E i \in DOMAIN d : d[i][1] = k

DictGet(d, k, default) ==
    IF DictHas(d, k) THEN d[CHOOSE i \in DOMAIN d : d[i][1] = k][2] ELSE default

DictSet(d, k, v) ==
    IF DictHas(d, k)
    THEN [d EXCEPT ![CHOOSE i \in DOMAIN d : d[i][1] = k] = <<k, v>>]
    ELSE Append(d, <<k, v>>)

(* The elements of a finite set of integers, in increasing order. *)
RECURSIVE SortedSeq(_)
SortedSeq(S) ==
    IF S = {} THEN <<>>
    ELSE LET m == CHOOSE x \in S : \A y \in S : x <= y
         IN  <<m>> \o SortedSeq(S \ {m})

(* All sequences over S of length at most n. *)
SeqsUpTo(S, n) == UNION {[1..k -> S] : k \in 0..n}

-----------------------------------------------------------------------------
(* Configuration *)

MIN_USERS == 2

MIN_INTERACTIONS == 3

N_COMPONENTS == 10

(* The literals of the score formula. *)
INTERACTION_BOOKMARK_BONUS == 5

READING_TIME_DIVISOR == 30

BOOKMARK_EVENT_WEIGHT == 5

-----------------------------------------------------------------------------
(* build_interaction_matrix *)

(* score = click_count + (5 if is_bookmarked else 0) + time_spent / 30.0 *)
interaction_score(interaction) ==
    RatAdd(RatAdd(RatOf(interaction.click_count),
                  RatOf(IF interaction.is_bookmarked
                        THEN INTERACTION_BOOKMARK_BONUS ELSE 0)),
           RatDiv(RatOf(interaction.time_spent), RatOf(READING_TIME_DIVISOR)))

(* The mutant of accumulate: the new amount replaces the stored score. *)
accumulate_overwrite(d, key, amount) == DictSet(d, key, amount)

(* scores[key] = scores.get(key, 0) + amount *)
accumulate(d, key, amount) ==
    DictSet(d, key, RatAdd(DictGet(d, key, RatOf(0)), amount))

(* for interaction in interactions: ... *)
RECURSIVE add_interactions(_, _)
add_interactions(d, events) ==
    IF events = <<>> THEN d
    ELSE LET interaction == Head(events)
             key == <<interaction.user_id, interaction.article_id>>
         IN  add_interactions(accumulate(d, key, interaction_score(interaction)),
                              Tail(events))

(* The mutant of bookmark_amount: a bookmark event adds nothing when the   *)
(* key already has a score (no double counting).                           *)
bookmark_amount_dedup(d, key) ==
    IF DictHas(d, key) THEN RatOf(0) ELSE RatOf(BOOKMARK_EVENT_WEIGHT)

(* The amount a bookmark event adds: + 5, whatever the dict holds. *)
bookmark_amount(d, key) == RatOf(BOOKMARK_EVENT_WEIGHT)

(* for bookmark in bookmarks: ... *)
RECURSIVE add_bookmarks(_, _)
add_bookmarks(d, events) ==
    IF events = <<>> THEN d
    ELSE LET bookmark == Head(events)
             key == <<bookmark.user_id, bookmark.article_id>>
         IN  add_bookmarks(accumulate(d, key, bookmark_amount(d, key)), Tail(events))

(* The scores dict after both loops. *)
build_scores(interaction_events, bookmark_events) ==
    add_bookmarks(add_interactions(<<>>, interaction_events), bookmark_events)

(* pd.DataFrame([{"user_id": k[0], "article_id": k[1], "score": v} ...]) *)
score_frame(d) ==
    [r \in DOMAIN d |-> [user_id |-> d[r][1][1], article_id |-> d[r][1][2],
                         score |-> d[r][2]]]

RECURSIVE SumScores(_, _)
SumScores(df, rows) ==
    IF rows = {} THEN RatOf(0)
    ELSE LET r == CHOOSE x \in rows : TRUE
         IN  RatAdd(df[r].score, SumScores(df, rows \ {r}))

(* An axis of the pivot table: the distinct labels, sorted. *)
pivot_axis(labels) == SortedSeq({labels[i] : i \in DOMAIN labels})

(* The mutant of pivot_cell: an unobserved pair is left missing (NaN). *)
pivot_cell_nofill(df, u, a) ==
    LET rows == {r \in DOMAIN df : df[r].user_id = u /\ df[r].article_id = a}
    IN  IF rows = {} THEN NaN
        ELSE RatDiv(SumScores(df, rows), RatOf(Cardinality(rows)))

(* A cell of the pivot table: the mean (the default aggfunc) of the scores *)
(* of the rows with that user and article, fill_value = 0 when none.       *)
pivot_cell(df, u, a) ==
    LET rows == {r \in DOMAIN df : df[r].user_id = u /\ df[r].article_id = a}
    IN  IF rows = {} THEN RatOf(0)
        ELSE RatDiv(SumScores(df, rows), RatOf(Cardinality(rows)))

(* df.pivot_table(index="user_id", columns="article_id", values="score",   *)
(*                fill_value=0)                                            *)
pivot_table(df) ==
    LET index   == pivot_axis([r \in DOMAIN df |-> df[r].user_id])
        columns == pivot_axis([r \in DOMAIN df |-> df[r].article_id])
    IN  [tag |-> "DataFrame", index |-> index, columns |-> columns,
         values |-> [i \in DOMAIN index |->
                        [j \in DOMAIN columns |->
                            pivot_cell(df, index[i], columns[j])]]]

(* matrix.shape *)
shape(m) == <<Len(m.index), Len(m.columns)>>

build_interaction_matrix(interaction_events, bookmark_events) ==
    LET d == build_scores(interaction_events, bookmark_events)
    IN  IF d = <<>>
        THEN [matrix |-> None, user_ids |-> <<>>, article_ids |-> <<>>]
        ELSE LET m == pivot_table(score_frame(d))
             IN  [matrix |-> m, user_ids |-> m.index, article_ids |-> m.columns]

-----------------------------------------------------------------------------
(* train_svd_model *)

(* The mutant of effective_rank: the clamp forgets the "- 1". *)
effective_rank_no_minus_one(n, m) ==
    LET k == Min(n, Min(shape(m)[1], shape(m)[2]))
    IN  IF k < 1 THEN 1 ELSE k

(* The mutant of effective_rank: the "- 1" clamp without the floor of 1. *)
effective_rank_no_floor(n, m) == Min(n, Min(shape(m)[1], shape(m)[2]) - 1)

(* n_components = min(n_components, min(matrix.shape) - 1)                 *)
(* if n_components < 1: n_components = 1                                   *)
effective_rank(n, m) ==
    LET k == Min(n, Min(shape(m)[1], shape(m)[2]) - 1)
    IN  IF k < 1 THEN 1 ELSE k

(* An entry of a factor array: a float whose value is not modelled. *)
Factor == [tag |-> "float"]

(* An array of the given number of rows and columns. *)
factor_array(rows, cols) == [i \in 1..rows |-> [j \in 1..cols |-> Factor]]

(* TruncatedSVD(n_components=k).fit_transform(matrix.values) is the        *)
(* library's: releases of scikit-learn differ on k = n_features, which     *)
(* some reject with ValueError and others accept.                          *)
svd_may_raise(k, m) == k >= shape(m)[2]

(* What train_svd_model returns when the fit succeeds. *)
train_svd_model(m, n) ==
    LET k == effective_rank(n, m)
    IN  [user_factors    |-> factor_array(shape(m)[1], k),
         article_factors |-> factor_array(shape(m)[2], k),
         n_components    |-> k]

-----------------------------------------------------------------------------
(* build_model_artifacts *)

(* for category, score in pref.get("category_scores", {}).items():         *)
(*     category_weights[category] = category_weights.get(category, 0) + score *)
RECURSIVE add_category_scores(_, _)
add_category_scores(cw, items) ==
    IF items = <<>> THEN cw
    ELSE add_category_scores(
             DictSet(cw, Head(items)[1],
                     RatAdd(DictGet(cw, Head(items)[1], RatOf(0)), RatOf(Head(items)[2]))),
             Tail(items))

(* for pref in preferences: ... *)
RECURSIVE raw_category_weights(_, _)
raw_category_weights(cw, prefs) ==
    IF prefs = <<>> THEN cw
    ELSE raw_category_weights(add_category_scores(cw, Head(prefs).category_scores),
                              Tail(prefs))

(* max(category_weights.values()) *)
RECURSIVE max_value(_)
max_value(cw) ==
    IF Len(cw) = 1 THEN cw[1][2]
    ELSE LET rest == max_value(Tail(cw))
         IN  IF RatLeq(rest, cw[1][2]) THEN cw[1][2] ELSE rest

(* The mutant of normalize_category_weights: no "if max_weight > 0". *)
normalize_unguarded(cw) ==
    IF cw # <<>>
    THEN LET max_weight == max_value(cw)
         IN  [i \in DOMAIN cw |-> <<cw[i][1], RatDiv(cw[i][2], max_weight)>>]
    ELSE cw

(* if category_weights:                                                    *)
(*     max_weight = max(category_weights.values())                         *)
(*     if max_weight > 0:                                                  *)
(*         category_weights = {k: v / max_weight for k, v in ...}          *)
normalize_category_weights(cw) ==
    IF cw # <<>>
    THEN LET max_weight == max_value(cw)
         IN  IF ~RatLeq(max_weight, RatOf(0))
             THEN [i \in DOMAIN cw |-> <<cw[i][1], RatDiv(cw[i][2], max_weight)>>]
             ELSE cw
    ELSE cw

(* category_weights_list *)
category_weights_list(prefs) ==
    LET cw == normalize_category_weights(raw_category_weights(<<>>, prefs))
    IN  [i \in DOMAIN cw |-> [category |-> cw[i][1], weight |-> cw[i][2]]]

RECURSIVE SumLen(_)
SumLen(rows) == IF rows = <<>> THEN 0 ELSE Len(Head(rows)) + SumLen(Tail(rows))

(* The mutant of total_interactions: the number of factor vectors. *)
total_interactions_rows(ufs) == Len(ufs)

(* sum(len(uf) for uf in user_factors) *)
total_interactions(ufs) == SumLen(ufs)

(* The division of build_model_artifacts raises ZeroDivisionError. *)
build_model_artifacts_raises(prefs) ==
    \E i \in DOMAIN category_weights_list(prefs) :
        category_weights_list(prefs)[i].weight = ZeroDivisionError

(* The model document; clock is datetime.now(). *)
build_model_artifacts(uids, aids, ufs, afs, k, prefs, clock) ==
    [tag            |-> "model_doc",
     version        |-> <<"v", clock>>,
     createdAt      |-> clock,
     algorithmType  |-> "collaborative_filtering_svd",
     nComponents    |-> k,
     trainingStats  |-> [totalUsers |-> Len(uids),
                         totalArticles |-> Len(aids),
                         totalInteractions |-> total_interactions(ufs)],
     categoryWeights |-> category_weights_list(prefs),
     userFactors    |-> [i \in DOMAIN uids |-> [userId |-> uids[i], factors |-> ufs[i]]],
     articleFactors |-> [i \in DOMAIN aids |-> [articleId |-> aids[i], factors |-> afs[i]]]]

-----------------------------------------------------------------------------
(* main *)

(* main() has not returned. *)
RUNNING == -1

(* The two "if" of the minimum-requirements check, in the code's order. *)
check_minimum_requirements_users_only(fetched) ==
    IF Cardinality({fetched[i].user_id : i \in DOMAIN fetched}) < MIN_USERS
    THEN "not_enough_users"
    ELSE "ok"

(* user_ids = set(i["user_id"] for i in interactions)                      *)
(* if len(user_ids) < MIN_USERS: skip                                      *)
(* if len(interactions) < MIN_INTERACTIONS: skip                           *)
check_minimum_requirements(fetched) ==
    IF Cardinality({fetched[i].user_id : i \in DOMAIN fetched}) < MIN_USERS
    THEN "not_enough_users"
    ELSE IF Len(fetched) < MIN_INTERACTIONS
         THEN "not_enough_interactions"
         ELSE "ok"

(* The Firestore documents a run can find *)

MaxInteractionDocs == 3

PipelineUsers == {1, 2, 3}

PipelineArticles == {1, 2, 3}

(* clickCount, timeSpentReading, isBookmarked of the interaction document *)
(* user_interactions/{u}/articles/{a}, when it exists: the runs differ in  *)
(* which documents exist.                                                  *)
DocSignal(u, a) ==
    CASE <<u, a>> = <<1, 1>> -> <<2, 0, FALSE>>
      [] <<u, a>> = <<1, 2>> -> <<0, 60, TRUE>>
      [] <<u, a>> = <<2, 1>> -> <<1, 30, FALSE>>
      [] OTHER -> <<a, 15 * u, u = a>>

(* Document ids in the order list_documents() and stream() yield them. *)
RECURSIVE SortedKeys(_)
SortedKeys(S) ==
    IF S = {} THEN <<>>
    ELSE LET m == CHOOSE x \in S : \A y \in S :
                      x[1] < y[1] \/ (x[1] = y[1] /\ x[2] <= y[2])
         IN  <<m>> \o SortedKeys(S \ {m})

(* fetch_user_interactions: one entry per user_interactions/{u}/articles/{a}. *)
interaction_docs(S) ==
    LET ks == SortedKeys(S)
    IN  [i \in DOMAIN ks |->
            [user_id |-> ks[i][1], article_id |-> ks[i][2],
             click_count |-> DocSignal(ks[i][1], ks[i][2])[1],
             time_spent |-> DocSignal(ks[i][1], ks[i][2])[2],
             is_bookmarked |-> DocSignal(ks[i][1], ks[i][2])[3],
             category |-> "unknown"]]

(* fetch_user_preferences: the lists it can return. *)
PreferenceFetches ==
    {<<>>,
     <<[user_id |-> 1, category_scores |-> <<<<"A", 10>>, <<"B", 5>>>>,
        total_interactions |-> 3]>>,
     <<[user_id |-> 2, category_scores |-> <<<<"A", 0>>>>, total_interactions |-> 0]>>,
     <<[user_id |-> 1, category_scores |-> <<<<"A", 10>>, <<"B", 5>>>>,
        total_interactions |-> 3],
       [user_id |-> 2, category_scores |-> <<<<"C", 20>>, <<"A", 0>>>>,
        total_interactions |-> 1]>>}

(* fetch_bookmarks: the lists it can return. *)
BookmarkFetches ==
    {<<>>,
     <<[user_id |-> 1, article_id |-> 1, category |-> "unknown"]>>,
     <<[user_id |-> 3, article_id |-> 3, category |-> "unknown"]>>,
     <<[user_id |-> 1, article_id |-> 1, category |-> "unknown"],
       [user_id |-> 3, article_id |-> 3, category |-> "unknown"]>>}

(* datetime.now() *)
Clock == {1, 2}

(* The document an earlier run left in ml_models/recommendation_model_v1. *)
PreviousModel == [tag |-> "model_doc", version |-> <<"v", 0>>]

Init ==
    /\ pc = "init_firebase"
    /\ doc_store \in {None, PreviousModel}
    /\ writes = 0
    /\ interactions = <<>>
    /\ preferences = <<>>
    /\ bookmarks = <<>>
    /\ requested = N_COMPONENTS
    /\ scores = <<>>
    /\ matrix = None
    /\ user_ids = <<>>
    /\ article_ids = <<>>
    /\ user_factors = <<>>
    /\ article_factors = <<>>
    /\ n_components = 0
    /\ model_doc = None
    /\ console = ""
    /\ raised = ""
    /\ result = RUNNING

(* db = init_firebase() *)
InitFirebase ==
    /\ pc = "init_firebase"
    /\ pc' = "fetch_interactions"
    /\ UNCHANGED <<doc_store, writes, interactions, preferences, bookmarks, requested,
                   scores, matrix, user_ids, article_ids, user_factors, article_factors,
                   n_components, model_doc, console, raised, result>>

(* interactions = fetch_user_interactions(db) *)
FetchUserInteractions ==
    /\ pc = "fetch_interactions"
    /\ \E S \in SUBSET (PipelineUsers \X PipelineArticles) :
          /\ Cardinality(S) <= MaxInteractionDocs
          /\ interactions' = interaction_docs(S)
    /\ pc' = "fetch_preferences"
    /\ UNCHANGED <<doc_store, writes, preferences, bookmarks, requested,
                   scores, matrix, user_ids, article_ids, user_factors, article_factors,
                   n_components, model_doc, console, raised, result>>

(* preferences = fetch_user_preferences(db) *)
FetchUserPreferences ==
    /\ pc = "fetch_preferences"
    /\ preferences' \in PreferenceFetches
    /\ pc' = "fetch_bookmarks"
    /\ UNCHANGED <<doc_store, writes, interactions, bookmarks, requested,
                   scores, matrix, user_ids, article_ids, user_factors, article_factors,
                   n_components, model_doc, console, raised, result>>

(* bookmarks = fetch_bookmarks(db) *)
FetchBookmarks ==
    /\ pc = "fetch_bookmarks"
    /\ bookmarks' \in BookmarkFetches
    /\ pc' = "check_minimum"
    /\ UNCHANGED <<doc_store, writes, interactions, preferences, requested,
                   scores, matrix, user_ids, article_ids, user_factors, article_factors,
                   n_components, model_doc, console, raised, result>>

(* Check minimum requirements: return 0 on either shortfall. *)
CheckMinimumRequirements ==
    /\ pc = "check_minimum"
    /\ LET verdict == check_minimum_requirements(interactions)
       IN  IF verdict = "ok"
           THEN /\ pc' = "build_matrix"
                /\ UNCHANGED <<console, result>>
           ELSE /\ pc' = "done"
                /\ console' = verdict
                /\ result' = 0
    /\ UNCHANGED <<doc_store, writes, interactions, preferences, bookmarks, requested,
                   scores, matrix, user_ids, article_ids, user_factors, article_factors,
                   n_components, model_doc, raised>>

(* matrix, user_ids, article_ids = build_interaction_matrix(...)           *)
(* if matrix is None: return 1                                             *)
BuildInteractionMatrix ==
    /\ pc = "build_matrix"
    /\ LET r == build_interaction_matrix(interactions, bookmarks)
       IN  /\ scores' = build_scores(interactions, bookmarks)
           /\ matrix' = r.matrix
           /\ user_ids' = r.user_ids
           /\ article_ids' = r.article_ids
           /\ IF r.matrix = None
              THEN /\ pc' = "done"
                   /\ console' = "matrix_failed"
                   /\ result' = 1
              ELSE /\ pc' = "train"
                   /\ UNCHANGED <<console, result>>
    /\ UNCHANGED <<doc_store, writes, interactions, preferences, bookmarks, requested,
                   user_factors, article_factors, n_components, model_doc, raised>>

(* user_factors, article_factors, n_components = train_svd_model(matrix) *)
TrainSvdModel ==
    /\ pc = "train"
    /\ LET r == train_svd_model(matrix, requested)
       IN  /\ user_factors' = r.user_factors
           /\ article_factors' = r.article_factors
           /\ n_components' = r.n_components
    /\ pc' = "build_artifacts"
    /\ UNCHANGED <<doc_store, writes, interactions, preferences, bookmarks, requested,
                   scores, matrix, user_ids, article_ids, model_doc, console, raised,
                   result>>

(* The mutant of handle_exception: the handler reports success. *)
handle_exception_returns_0(stage) ==
    /\ pc' = "done"
    /\ raised' = stage
    /\ console' = "training_failed"
    /\ result' = 0

(* except Exception: ... return 1 *)
handle_exception(stage) ==
    /\ pc' = "done"
    /\ raised' = stage
    /\ console' = "training_failed"
    /\ result' = 1

(* model_doc, version = build_model_artifacts(...) *)
BuildModelArtifacts ==
    /\ pc = "build_artifacts"
    /\ \E clock \in Clock :
          IF build_model_artifacts_raises(preferences)
          THEN /\ handle_exception("build_artifacts")
               /\ UNCHANGED model_doc
          ELSE /\ model_doc' = build_model_artifacts(user_ids, article_ids, user_factors,
                                   article_factors, n_components, preferences, clock)
               /\ pc' = "upload"
               /\ UNCHANGED <<console, raised, result>>
    /\ UNCHANGED <<doc_store, writes, interactions, preferences, bookmarks, requested,
                   scores, matrix, user_ids, article_ids, user_factors, article_factors,
                   n_components>>

(* doc_ref.set(model_doc): the document is overwritten as a whole. *)
firestore_set(old, new) == new

(* success = upload_model_to_firestore(db, model_doc, version)             *)
(* if success: return 0  else: return 1                                    *)
UploadModelToFirestore ==
    /\ pc = "upload"
    /\ doc_store' = firestore_set(doc_store, model_doc)
    /\ writes' = writes + 1
    /\ LET success == TRUE
       IN  /\ console' = IF success THEN "training_complete" ELSE "upload_failed"
           /\ result' = IF success THEN 0 ELSE 1
    /\ pc' = "done"
    /\ UNCHANGED <<interactions, preferences, bookmarks, requested, scores, matrix,
                   user_ids, article_ids, user_factors, article_factors, n_components,
                   model_doc, raised>>

(* Whether the stage at pc can raise: init_firebase without credentials,   *)
(* a Firestore read or write that fails, a document field whose type the   *)
(* arithmetic rejects, or the fit (svd_may_raise).  The check of the       *)
(* minimum requirements raises nothing.                                    *)
may_raise(stage) ==
    \/ stage \in {"init_firebase", "fetch_interactions", "fetch_preferences",
                  "fetch_bookmarks", "build_matrix", "build_artifacts", "upload"}
    \/ stage = "train" /\ svd_may_raise(effective_rank(requested, matrix), matrix)

(* The mutant of ExceptionRaised: a write that fails leaves a part of the  *)
(* document behind.                                                        *)
ExceptionRaisedPartialWrite ==
    /\ may_raise(pc)
    /\ handle_exception(pc)
    /\ doc_store' = IF pc = "upload" THEN [tag |-> "model_doc", version |-> model_doc.version]
                    ELSE doc_store
    /\ UNCHANGED <<writes, interactions, preferences, bookmarks, requested,
                   scores, matrix, user_ids, article_ids, user_factors, article_factors,
                   n_components, model_doc>>

(* An exception reaches main's handler; nothing else changes. *)
ExceptionRaised ==
    /\ may_raise(pc)
    /\ handle_exception(pc)
    /\ UNCHANGED <<doc_store, writes, interactions, preferences, bookmarks, requested,
                   scores, matrix, user_ids, article_ids, user_factors, article_factors,
                   n_components, model_doc>>

Next ==
    \/ InitFirebase
    \/ FetchUserInteractions
    \/ FetchUserPreferences
    \/ FetchBookmarks
    \/ CheckMinimumRequirements
    \/ BuildInteractionMatrix
    \/ TrainSvdModel
    \/ BuildModelArtifacts
    \/ UploadModelToFirestore
    \/ ExceptionRaised

Spec == Init /\ [][Next]_vars

-----------------------------------------------------------------------------
(* Direct calls of one function, on arguments drawn from bounded sets *)

MaxEvents == 2

MaxBookmarkEvents == 1

EventUsers == {1, 2}

EventArticles == {1, 2}

(* click_count, time_spent (seconds), is_bookmarked *)
EventSignals == {<<0, 60, TRUE>>, <<1, 45, FALSE>>, <<0, 0, FALSE>>}

InteractionEvents ==
    {[user_id |-> u, article_id |-> a, click_count |-> s[1], time_spent |-> s[2],
      is_bookmarked |-> s[3], category |-> "unknown"] :
        u \in EventUsers, a \in EventArticles, s \in EventSignals}

BookmarkEvents ==
    {[user_id |-> u, article_id |-> a, category |-> "unknown"] :
        u \in EventUsers, a \in EventArticles}

(* The state outside the arguments of a direct call. *)
Fresh ==
    /\ doc_store = None
    /\ writes = 0
    /\ scores = <<>>
    /\ model_doc = None
    /\ console = ""
    /\ raised = ""
    /\ result = RUNNING

InitMatrix ==
    /\ pc = "call"
    /\ Fresh
    /\ interactions \in SeqsUpTo(InteractionEvents, MaxEvents)
    /\ bookmarks \in SeqsUpTo(BookmarkEvents, MaxBookmarkEvents)
    /\ preferences = <<>>
    /\ requested = N_COMPONENTS
    /\ matrix = None
    /\ user_ids = <<>>
    /\ article_ids = <<>>
    /\ user_factors = <<>>
    /\ article_factors = <<>>
    /\ n_components = 0

(* matrix, user_ids, article_ids = build_interaction_matrix(interactions, bookmarks) *)
CallBuildInteractionMatrix ==
    /\ pc = "call"
    /\ LET r == build_interaction_matrix(interactions, bookmarks)
       IN  /\ scores' = build_scores(interactions, bookmarks)
           /\ matrix' = r.matrix
           /\ user_ids' = r.user_ids
           /\ article_ids' = r.article_ids
    /\ pc' = "returned"
    /\ UNCHANGED <<doc_store, writes, interactions, preferences, bookmarks, requested,
                   user_factors, article_factors, n_components, model_doc, console,
                   raised, result>>

SpecMatrix == InitMatrix /\ [][CallBuildInteractionMatrix]_vars

MaxDim == 4

MaxRequested == 11

(* A matrix of the given shape (its cells play no part in the rank). *)
blank_matrix(rows, cols) ==
    [tag |-> "DataFrame", index |-> [i \in 1..rows |-> i],
     columns |-> [j \in 1..cols |-> j],
     values |-> [i \in 1..rows |-> [j \in 1..cols |-> RatOf(0)]]]

InitSVD ==
    /\ pc = "call"
    /\ Fresh
    /\ interactions = <<>>
    /\ bookmarks = <<>>
    /\ preferences = <<>>
    /\ requested \in (-1)..MaxRequested
    /\ \E rows \in 1..MaxDim, cols \in 1..MaxDim :
          /\ matrix = blank_matrix(rows, cols)
          /\ user_ids = blank_matrix(rows, cols).index
          /\ article_ids = blank_matrix(rows, cols).columns
    /\ user_factors = <<>>
    /\ article_factors = <<>>
    /\ n_components = 0

(* user_factors, article_factors, n_components = train_svd_model(matrix, requested) *)
CallTrainSvdModel ==
    /\ pc = "call"
    /\ LET r == train_svd_model(matrix, requested)
       IN  /\ user_factors' = r.user_factors
           /\ article_factors' = r.article_factors
           /\ n_components' = r.n_components
    /\ pc' = "returned"
    /\ UNCHANGED <<doc_store, writes, interactions, preferences, bookmarks, requested,
                   scores, matrix, user_ids, article_ids, model_doc, console, raised,
                   result>>

(* The fit raises: train_svd_model returns nothing. *)
CallTrainSvdModelRaises ==
    /\ pc = "call"
    /\ svd_may_raise(effective_rank(requested, matrix), matrix)
    /\ pc' = "raised"
    /\ raised' = "train"
    /\ UNCHANGED <<doc_store, writes, interactions, preferences, bookmarks, requested,
                   scores, matrix, user_ids, article_ids, user_factors, article_factors,
                   n_components, model_doc, console, result>>

SpecSVD == InitSVD /\ [][CallTrainSvdModel \/ CallTrainSvdModelRaises]_vars

MaxPreferences == 2

CategoryNames == <<"A", "B", "C">>

(* The scores a categoryScores map can give the i-th category. *)
CategoryScoreValues(i) ==
    CASE i = 1 -> {0, 5, 10}
      [] i = 2 -> {0, 5}
      [] OTHER -> {0, 10}

(* A categoryScores map with the score f[i] for category i, none when      *)
(* f[i] < 0: its items, in the order the dict yields them.                 *)
category_scores_items(f) ==
    LET present == SelectSeq([i \in DOMAIN CategoryNames |-> i], LAMBDA i : f[i] >= 0)
    IN  [k \in DOMAIN present |-> <<CategoryNames[present[k]], f[present[k]]>>]

PreferenceRecords ==
    {[user_id |-> 1, category_scores |-> category_scores_items(f),
      total_interactions |-> 0] :
        f \in {g \in [DOMAIN CategoryNames -> {-1, 0, 5, 10}] :
                  \A i \in DOMAIN CategoryNames :
                      g[i] \in CategoryScoreValues(i) \cup {-1}}}

InitArtifacts ==
    /\ pc = "call"
    /\ Fresh
    /\ interactions = <<>>
    /\ bookmarks = <<>>
    /\ preferences \in SeqsUpTo(PreferenceRecords, MaxPreferences)
    /\ requested = N_COMPONENTS
    /\ matrix = blank_matrix(2, 2)
    /\ user_ids = <<1, 2>>
    /\ article_ids = <<1, 2>>
    /\ user_factors = factor_array(2, 1)
    /\ article_factors = factor_array(2, 1)
    /\ n_components = 1

(* model_doc, version = build_model_artifacts(user_ids, article_ids,       *)
(*     user_factors, article_factors, n_components, preferences)           *)
CallBuildModelArtifacts ==
    /\ pc = "call"
    /\ \E clock \in Clock :
          IF build_model_artifacts_raises(preferences)
          THEN /\ pc' = "raised"
               /\ raised' = "build_artifacts"
               /\ UNCHANGED model_doc
          ELSE /\ model_doc' = build_model_artifacts(user_ids, article_ids, user_factors,
                                   article_factors, n_components, preferences, clock)
               /\ pc' = "returned"
               /\ UNCHANGED raised
    /\ UNCHANGED <<doc_store, writes, interactions, preferences, bookmarks, requested,
                   scores, matrix, user_ids, article_ids, user_factors, article_factors,
                   n_components, console, result>>

SpecArtifacts == InitArtifacts /\ [][CallBuildModelArtifacts]_vars

-----------------------------------------------------------------------------
(* Properties of build_interaction_matrix (SpecMatrix) *)

EventKeys(events) == {<<events[i].user_id, events[i].article_id>> : i \in DOMAIN events}

ReferencedKeys == EventKeys(interactions) \cup EventKeys(bookmarks)

(* Thirty times click_count + 5*[is_bookmarked] + time_spent/30, summed over *)
(* the interaction events at the positions idxs: an integer.                 *)
RECURSIVE InteractionThirtieths(_)
InteractionThirtieths(idxs) ==
    IF idxs = {} THEN 0
    ELSE LET i == CHOOSE x \in idxs : TRUE
             e == interactions[i]
         IN  30 * e.click_count + (IF e.is_bookmarked THEN 150 ELSE 0) + e.time_spent
             + InteractionThirtieths(idxs \ {i})

(* Thirty times the score the scoring formula gives the key. *)
ExpectedThirtieths(key) ==
    InteractionThirtieths({i \in DOMAIN interactions :
        <<interactions[i].user_id, interactions[i].article_id>> = key})
    + 150 * Cardinality({i \in DOMAIN bookmarks :
        <<bookmarks[i].user_id, bookmarks[i].article_id>> = key})

(* C1: after build_interaction_matrix, the score of each (user, item) key is *)
(* the sum over the interaction events with that key of click_count +        *)
(* (5 if is_bookmarked) + time_spent/30, plus 5 for every bookmark event     *)
(* with that key (also when an interaction of the key is already             *)
(* bookmarked), and the keys of the score map are exactly the keys some      *)
(* interaction or bookmark event references, each once.                      *)
C1_ScoreFormula ==
    pc = "returned" =>
        /\ {scores[i][1] : i \in DOMAIN scores} = ReferencedKeys
        /\ Len(scores) = Cardinality(ReferencedKeys)
        /\ \A i \in DOMAIN scores :
              /\ scores[i][2][2] > 0
              /\ scores[i][2][1] * 30 = scores[i][2][2] * ExpectedThirtieths(scores[i][1])

(* A key with a bookmarked interaction and a bookmark event: counted twice. *)
C1_Witness ==
    /\ pc = "returned"
    /\ \E i \in DOMAIN interactions, b \in DOMAIN bookmarks :
          /\ interactions[i].is_bookmarked
          /\ interactions[i].user_id = bookmarks[b].user_id
          /\ interactions[i].article_id = bookmarks[b].article_id
          /\ DictGet(scores, <<bookmarks[b].user_id, bookmarks[b].article_id>>, RatOf(0))
                = RatOf(12)

(* The reorderings of a list. *)
Shuffles(s) == {[i \in DOMAIN s |-> s[f[i]]] : f \in Permutations(DOMAIN s)}

RECURSIVE SumSeq(_)
SumSeq(s) == IF s = <<>> THEN RatOf(0) ELSE RatAdd(Head(s), SumSeq(Tail(s)))

(* matrix.sum(): the sum of all the cells. *)
MatrixSum(m) == SumSeq([i \in DOMAIN m.values |-> SumSeq(m.values[i])])

NoRepeats(s) == \A i, j \in DOMAIN s : s[i] = s[j] => i = j

(* C8: for a non-empty score map the matrix has one row per distinct user   *)
(* and one column per distinct item of the score keys (bookmark-only ones   *)
(* included, unreferenced ones excluded), cell (u,i) is the score of (u,i)  *)
(* when that is a key and exactly 0 otherwise, and the cells sum to the sum *)
(* of the scores.                                                           *)
C8_MatrixContents ==
    (pc = "returned" /\ scores # <<>>) =>
        /\ matrix # None
        /\ NoRepeats(matrix.index) /\ NoRepeats(matrix.columns)
        /\ {matrix.index[i] : i \in DOMAIN matrix.index} = {k[1] : k \in ReferencedKeys}
        /\ {matrix.columns[j] : j \in DOMAIN matrix.columns} = {k[2] : k \in ReferencedKeys}
        /\ DOMAIN matrix.values = DOMAIN matrix.index
        /\ \A i \in DOMAIN matrix.index :
              /\ DOMAIN matrix.values[i] = DOMAIN matrix.columns
              /\ \A j \in DOMAIN matrix.columns :
                    matrix.values[i][j] =
                        DictGet(scores, <<matrix.index[i], matrix.columns[j]>>, RatOf(0))
        /\ MatrixSum(matrix) = SumSeq([i \in DOMAIN scores |-> scores[i][2]])

(* A user that only a bookmark event references has a row, and an           *)
(* unobserved pair has a 0 cell.                                            *)
C8_Witness ==
    /\ pc = "returned"
    /\ matrix # None
    /\ \E u \in {k[1] : k \in EventKeys(bookmarks)} \ {k[1] : k \in EventKeys(interactions)} :
          \E i \in DOMAIN matrix.index : matrix.index[i] = u
    /\ \E i \in DOMAIN matrix.index, j \in DOMAIN matrix.columns :
          /\ <<matrix.index[i], matrix.columns[j]>> \notin ReferencedKeys
          /\ matrix.values[i][j] = RatOf(0)
    /\ MatrixSum(matrix) # RatOf(0)

-----------------------------------------------------------------------------
(* Properties of main (Spec) *)

DistinctUsers == Cardinality({interactions[i].user_id : i \in DOMAIN interactions})

(* C2: the model is trained and the document written only if the fetched   *)
(* interaction events have at least 2 distinct users and number at least   *)
(* 3 (bookmarks and preferences do not count); a run that finds either     *)
(* threshold unmet returns 0 with no training and no write.                *)
C2_ThresholdGate ==
    /\ (\/ pc \in {"build_matrix", "train", "build_artifacts", "upload"}
        \/ scores # <<>> \/ matrix # None \/ n_components # 0 \/ user_factors # <<>>
        \/ model_doc # None \/ writes # 0 \/ console = "training_complete")
       => (DistinctUsers >= 2 /\ Len(interactions) >= 3)
    /\ (pc = "done" /\ raised = "" /\ ~(DistinctUsers >= 2 /\ Len(interactions) >= 3))
       => /\ result = 0
          /\ console \in {"not_enough_users", "not_enough_interactions"}
          /\ n_components = 0 /\ user_factors = <<>> /\ matrix = None
          /\ model_doc = None /\ writes = 0
          /\ doc_store \in {None, PreviousModel}

(* One user with three interactions, and a bookmark of another user: skipped. *)
C2_Witness ==
    /\ pc = "done"
    /\ result = 0
    /\ DistinctUsers = 1
    /\ Len(interactions) = 3
    /\ \E b \in DOMAIN bookmarks : \A i \in DOMAIN interactions :
          bookmarks[b].user_id # interactions[i].user_id
    /\ writes = 0

C5_SingleWriteAtTheEnd ==
    [][(doc_store' # doc_store \/ writes' # writes) =>
          /\ pc = "upload" /\ pc' = "done"
          /\ writes = 0 /\ writes' = 1
          /\ raised = "" /\ raised' = ""
          /\ check_minimum_requirements(interactions) = "ok"
          /\ matrix # None
          /\ n_components >= 1 /\ Len(user_factors) = Len(user_ids)
          /\ model_doc # None
          /\ doc_store' = model_doc
          /\ result' = 0]_vars

(* A run over an earlier model that published, and replaced it. *)
C5_Witness ==
    /\ pc = "done"
    /\ writes = 1
    /\ doc_store = model_doc
    /\ doc_store.version # PreviousModel.version
    /\ result = 0

(* The state of a run: it has a result exactly when it has ended; the       *)
(* result is 0 exactly when it published or skipped on the gate, and 1      *)
(* exactly when the matrix was None, the write did not succeed, or an       *)
(* exception was raised.                                                    *)
C6_ExitState ==
    /\ result \in {RUNNING, 0, 1}
    /\ result # RUNNING <=> pc = "done"
    /\ pc \in {"init_firebase", "fetch_interactions", "fetch_preferences",
               "fetch_bookmarks", "check_minimum", "build_matrix", "train",
               "build_artifacts", "upload", "done"}
    /\ pc = "done" =>
          /\ result = 0 <=>
                \/ console = "training_complete" /\ writes = 1 /\ doc_store = model_doc
                \/ /\ console \in {"not_enough_users", "not_enough_interactions"}
                   /\ check_minimum_requirements(interactions) = console
                   /\ writes = 0
          /\ result = 1 <=>
                \/ console = "matrix_failed" /\ matrix = None /\ writes = 0
                \/ console = "upload_failed" /\ writes = 1
                \/ console = "training_failed" /\ raised # "" /\ writes = 0
          /\ raised # "" => result = 1
          /\ writes <= 1

(* The position in main() only advances. *)
StageRank(stage) ==
    CASE stage = "init_firebase" -> 0
      [] stage = "fetch_interactions" -> 1
      [] stage = "fetch_preferences" -> 2
      [] stage = "fetch_bookmarks" -> 3
      [] stage = "check_minimum" -> 4
      [] stage = "build_matrix" -> 5
      [] stage = "train" -> 6
      [] stage = "build_artifacts" -> 7
      [] stage = "upload" -> 8
      [] OTHER -> 9

(* C6: every run ends with exactly one result: each step moves main()      *)
(* forward through its stages, so a run ends after at most nine steps; no   *)
(* step follows the one that sets the result; the result is 0 exactly when  *)
(* the run published or skipped on the gate, and 1 exactly when the matrix  *)
(* was None, the write did not succeed, or an exception was raised.         *)
C6_ExitResult ==
    /\ []C6_ExitState
    /\ [][StageRank(pc') > StageRank(pc) /\ result = RUNNING]_vars

(* A run whose write raised: failure, no retry, nothing written. *)
C6_Witness ==
    /\ pc = "done"
    /\ raised = "upload"
    /\ result = 1
    /\ writes = 0
    /\ model_doc # None

(* C10: in a built artifact totalInteractions is the sum of the lengths of  *)
(* the users' factor vectors, which is totalUsers * nComponents, whatever   *)
(* the number of events; totalUsers and totalArticles count the userFactors *)
(* and articleFactors entries.                                              *)
C10_TrainingStats ==
    model_doc # None =>
        LET stats == model_doc.trainingStats
        IN  /\ stats.totalInteractions =
                  SumLen([i \in DOMAIN model_doc.userFactors |->
                             model_doc.userFactors[i].factors])
            /\ stats.totalInteractions = stats.totalUsers * model_doc.nComponents
            /\ stats.totalUsers = Len(model_doc.userFactors)
            /\ stats.totalArticles = Len(model_doc.articleFactors)
            /\ stats.totalUsers = shape(matrix)[1]
            /\ stats.totalArticles = shape(matrix)[2]

(* Three users at rank 2: totalInteractions is 6, with 3 interaction events *)
(* and 1 bookmark event fetched.                                            *)
C10_Witness ==
    /\ model_doc # None
    /\ model_doc.trainingStats.totalInteractions = 6
    /\ model_doc.nComponents = 2
    /\ Len(interactions) = 3
    /\ Len(bookmarks) = 1

-----------------------------------------------------------------------------
(* Properties of train_svd_model (SpecSVD) *)

(* C9: train_svd_model returns min(requested, min(num_users, num_items) - 1), *)
(* or 1 when that is below 1, and factor arrays of that width; 3 users and    *)
(* 2 items at requested rank 10 give 1, and so does a 2 x 2 matrix.           *)
C9_RankClamp ==
    pc = "returned" =>
        LET rows == shape(matrix)[1]
            cols == shape(matrix)[2]
            small == IF rows <= cols THEN rows ELSE cols
        IN  /\ (requested >= 1 /\ small >= 2) =>
                  /\ n_components <= requested
                  /\ n_components <= small - 1
                  /\ n_components = requested \/ n_components = small - 1
            /\ (requested < 1 \/ small < 2) => n_components = 1
            /\ (requested = 10 /\ rows = 3 /\ cols = 2) => n_components = 1
            /\ (requested = 10 /\ rows = 2 /\ cols = 2) => n_components = 1
            /\ Len(user_factors) = rows /\ Len(article_factors) = cols
            /\ \A i \in DOMAIN user_factors : Len(user_factors[i]) = n_components
            /\ \A j \in DOMAIN article_factors : Len(article_factors[j]) = n_components

(* 3 users, 2 items, requested rank 10: rank 1. *)
C9_Witness ==
    /\ pc = "returned"
    /\ shape(matrix) = <<3, 2>>
    /\ requested = 10
    /\ n_components = 1

-----------------------------------------------------------------------------
(* Properties of build_model_artifacts (SpecArtifacts) *)

(* The categories some preference record scores. *)
PresentCategories ==
    UNION {{preferences[i].category_scores[k][1] :
               k \in DOMAIN preferences[i].category_scores} : i \in DOMAIN preferences}

(* The sum of category_scores[c] over the preference records at idxs. *)
RECURSIVE RawTotalOver(_, _)
RawTotalOver(c, idxs) ==
    IF idxs = {} THEN 0
    ELSE LET i == CHOOSE x \in idxs : TRUE
         IN  DictGet(preferences[i].category_scores, c, 0) + RawTotalOver(c, idxs \ {i})

RawTotal(c) == RawTotalOver(c, DOMAIN preferences)

(* The largest raw total (0 when no category is scored). *)
MaxRawTotal ==
    IF PresentCategories = {} THEN 0
    ELSE CHOOSE m \in {RawTotal(c) : c \in PresentCategories} :
             \A c \in PresentCategories : RawTotal(c) <= m

(* One categoryWeights entry per scored category. *)
OneEntryPerCategory(w) ==
    /\ {w[i].category : i \in DOMAIN w} = PresentCategories
    /\ Len(w) = Cardinality(PresentCategories)

(* C4 as claimed: categoryWeights is empty when no category is scored, and   *)
(* otherwise has one entry per category with weight raw total / maximum raw  *)
(* total, every weight in [0, 1] and the largest exactly 1, all-zero totals  *)
(* included.                                                                 *)
C4_MaxWeightIsOne ==
    pc = "returned" =>
        LET w == model_doc.categoryWeights
        IN  /\ PresentCategories = {} => w = <<>>
            /\ PresentCategories # {} =>
                  /\ OneEntryPerCategory(w)
                  /\ \A i \in DOMAIN w :
                        /\ w[i].weight[2] > 0
                        /\ w[i].weight[1] * MaxRawTotal
                              = w[i].weight[2] * RawTotal(w[i].category)
                        /\ RatLeq(RatOf(0), w[i].weight)
                        /\ RatLeq(w[i].weight, RatOf(1))
                  /\ \E i \in DOMAIN w : w[i].weight = RatOf(1)

(* C4 as amended: build_model_artifacts never divides by zero; categoryWeights *)
(* is empty exactly when no category is scored and otherwise has one entry per *)
(* category; when the largest raw total is positive each weight is raw total / *)
(* largest raw total, lies in [0, 1], and the largest is exactly 1; when every *)
(* raw total is 0 the weights are left as they are, all 0.                     *)
C4_CategoryWeights ==
    /\ pc # "raised"
    /\ pc = "returned" =>
          LET w == model_doc.categoryWeights
          IN  /\ PresentCategories = {} <=> w = <<>>
              /\ OneEntryPerCategory(w)
              /\ \A i \in DOMAIN w : w[i].weight[2] > 0
              /\ MaxRawTotal > 0 =>
                    /\ \A i \in DOMAIN w :
                          /\ w[i].weight[1] * MaxRawTotal
                                = w[i].weight[2] * RawTotal(w[i].category)
                          /\ RatLeq(RatOf(0), w[i].weight)
                          /\ RatLeq(w[i].weight, RatOf(1))
                    /\ \E i \in DOMAIN w : w[i].weight = RatOf(1)
              /\ MaxRawTotal = 0 => \A i \in DOMAIN w : w[i].weight = RatOf(0)

(* Raw totals A 10, B 5, C 20, summed over two users: weights 1/2, 1/4, 1. *)
C4_Witness ==
    /\ pc = "returned"
    /\ Len(preferences) = 2
    /\ RawTotal("A") = 10 /\ RawTotal("B") = 5 /\ RawTotal("C") = 20
    /\ \E i \in DOMAIN preferences : DictGet(preferences[i].category_scores, "C", 0) = 10
    /\ \E i, j, k \in DOMAIN model_doc.categoryWeights :
          /\ model_doc.categoryWeights[i] = [category |-> "A", weight |-> <<1, 2>>]
          /\ model_doc.categoryWeights[j] = [category |-> "B", weight |-> <<1, 4>>]
          /\ model_doc.categoryWeights[k] = [category |-> "C", weight |-> <<1, 1>>]

====
